---- MODULE Spec2Model ----
(***************************************************************************)
(* Model of main.py: a harness that writes a batch of chunks to files      *)
(* with four strategies (aiofiles, aiofile, a thread-pool executor, plain  *)
(* blocking writes), timing each one.                                      *)
(***************************************************************************)
EXTENDS Integers, Sequences, FiniteSets, TLC

VARIABLES chunks, dirs, files, out, err, pc, idx, ph, status,
          inflight, queue, completed, failed, max_workers, resets

vars == <<chunks, dirs, files, out, err, pc, idx, ph, status,
          inflight, queue, completed, failed, max_workers, resets>>

(* ---- bounds ---- *)
MaxN == 4

MaxResets == 2

(* ---- program constants ---- *)
MaxWorkers == 3

ChunkValues == {"A", "0"}

PoolSizes == {1, MaxWorkers}

(* class Dirs, in definition order (the order of `for dirname in Dirs`) *)
Dirs == <<"aiofiles", "aiofile", "file", "executor">>

DirNames == {Dirs[k] : k \in 1..Len(Dirs)}

(* the order in which test() runs the strategies *)
RunOrder == <<"aiofiles", "aiofile", "executor", "file">>

(* the description each strategy is decorated with *)
Description(s) ==
  CASE s = "aiofiles" -> "Dirs.AIOFILES"
    [] s = "aiofile"  -> "Dirs.AIOFILE "
    [] s = "executor" -> "Dirs.EXECUTOR"
    [] s = "file"     -> "Dirs.FILE    "

NLine == "n=, chunk_size="

ExitedLine == "Exited"

(* ---- the filesystem ---- *)
EmptyDir == [x \in {} |-> ""]

(* what an earlier, larger run can have left in a directory *)
StaleFiles == [i \in 0..MaxN |-> "old"]

DirStates == {"absent", "empty", "stale"}

FsOf(st) ==
  [dirs  |-> {d \in DirNames : st[d] # "absent"},
   files |-> [d \in DirNames |-> IF st[d] = "stale" THEN StaleFiles ELSE EmptyDir]]

(* faulty variant: the test is inverted, rmtree runs only on a missing path *)
delete_dir_inverted(d, D, F) ==
  IF d \notin D
    THEN [dirs |-> D, files |-> F, err |-> TRUE]
    ELSE [dirs |-> D, files |-> F, err |-> FALSE]

(* faulty variant: rmdir in place of rmtree, which refuses a directory with files *)
delete_dir_rmdir(d, D, F) ==
  IF d \in D
    THEN IF F[d] = EmptyDir
           THEN [dirs |-> D \ {d}, files |-> F, err |-> FALSE]
           ELSE [dirs |-> D, files |-> F, err |-> TRUE]
    ELSE [dirs |-> D, files |-> F, err |-> FALSE]

(* delete_dir: rmtree when the path exists, nothing otherwise *)
delete_dir(d, D, F) ==
  IF d \in D
    THEN [dirs |-> D \ {d}, files |-> [F EXCEPT ![d] = EmptyDir], err |-> FALSE]
    ELSE [dirs |-> D, files |-> F, err |-> FALSE]

(* make_dir: mkdir(parents=True, exist_ok=True) *)
make_dir(d, D, F) ==
  [dirs |-> D \cup {d}, files |-> F, err |-> FALSE]

(* open(file_name, 'w+'): creates or truncates; the directory must exist *)
open_w(d, i, D, F) ==
  IF d \in D
    THEN [files |-> [F EXCEPT ![d] = (i :> "") @@ F[d]], err |-> FALSE]
    ELSE [files |-> F, err |-> TRUE]

(* f.write(data) *)
write_data(d, i, data, F) ==
  [F EXCEPT ![d] = (i :> data) @@ F[d]]

(* an open file of strategy s: index, data to write, whether written yet *)
Handle(s, i, data, w) == [s |-> s, idx |-> i, data |-> data, written |-> w]

(* faulty variant: the file is opened without a context manager and never closed *)
close_handle_leak(H, s, i) == H

(* the context manager's exit: the handle is released *)
close_handle(H, s, i) == {h \in H : ~(h.s = s /\ h.idx = i)}

(* generate_random_chunks(n, chunk_size) *)
N == Len(chunks)

Batches == UNION {[1..k -> ChunkValues] : k \in 1..MaxN}

(* faulty variant: enumerate(chunks, 1) pairs an index with the next chunk *)
ChunkAt_shifted(i) == chunks[((i + 1) % Len(chunks)) + 1]

(* enumerate(chunks): the chunk of index i *)
ChunkAt(i) == chunks[i + 1]

(* faulty variant: a closure over the loop variable, every task sees one chunk *)
TaskArgs_closure(k) == [idx |-> k, data |-> ChunkAt(0)]

(* partial(write_file, f'./{dir_name}/{idx}.txt', chunk): bound at submission *)
TaskArgs(k) == [idx |-> k, data |-> ChunkAt(k)]

(* faulty variant: try/else in place of try/finally, nothing printed on an exception *)
perf_manager_else(o, description, raised) ==
  IF raised THEN o ELSE Append(o, description)

(* perf_manager: the finally block prints on every exit *)
perf_manager(o, description, raised) == Append(o, description)

Running(s) == {h \in inflight : h.s = s}

(* faulty variant: no limit on the number of worker threads *)
WorkerAvailable_unbounded == TRUE

(* ThreadPoolExecutor(max_workers): a queued task starts only on a free worker *)
WorkerAvailable == Cardinality(Running("executor")) < max_workers

(* faulty variant: waits until one future has a result (FIRST_COMPLETED) *)
GatherDone_any == completed # {}

(* faulty variant: waits until the pool has taken every task, not until it is done *)
GatherDone_dequeued == queue = <<>>

(* asyncio.gather: returns when every future has a result *)
GatherDone == completed = 0..(N - 1)

(* asyncio.gather: raises as soon as one future has an exception *)
GatherFailed == failed # {}

NextInRun(s) ==
  LET k == CHOOSE j \in 1..Len(RunOrder) : RunOrder[j] = s
  IN IF k < Len(RunOrder) THEN RunOrder[k + 1] ELSE "teardown"

(* faulty variant: test() wraps the run in try/finally and deletes the directories *)
OnException_cleanup == "teardown"

(* where an exception that leaves test() lands: main's finally block *)
OnException == "finally"

(* ---- initial states ---- *)
InitCommon ==
  /\ out = <<>>
  /\ err = FALSE
  /\ idx = 0
  /\ ph = "open"
  /\ status = [s \in DirNames |-> "idle"]
  /\ inflight = {}
  /\ queue = <<>>
  /\ completed = {}
  /\ failed = {}
  /\ resets = <<>>

InitFs ==
  \E st \in [DirNames -> DirStates] :
    /\ dirs = FsOf(st).dirs
    /\ files = FsOf(st).files

(* the batch generate_random_chunks will return is drawn here *)
Init ==
  /\ InitCommon
  /\ InitFs
  /\ chunks \in Batches
  /\ pc = "main"
  /\ max_workers = MaxWorkers

(* ---- main() ---- *)
MainStart ==
  /\ pc = "main"
  /\ out' = Append(out, NLine)
  /\ pc' = "setup"
  /\ idx' = 0
  /\ UNCHANGED <<chunks, dirs, files, err, ph, status, inflight, queue, completed,
                 failed, max_workers, resets>>

(* the exception leaves test() *)
Abort ==
  /\ err' = TRUE
  /\ pc' = OnException
  /\ idx' = 0

(* ---- test(): for dirname in Dirs: delete_dir; make_dir ---- *)
SetupDir ==
  /\ pc = "setup"
  /\ LET d == Dirs[idx + 1]
         a == delete_dir(d, dirs, files)
         b == make_dir(d, a.dirs, a.files)
     IN \/ /\ ~a.err /\ ~b.err
           /\ dirs' = b.dirs
           /\ files' = b.files
           /\ IF idx + 1 < Len(Dirs)
                THEN /\ idx' = idx + 1 /\ pc' = pc
                ELSE /\ idx' = 0 /\ pc' = RunOrder[1]
           /\ UNCHANGED err
        \/ (* rmtree raises (the directory is left as it was) *)
           /\ (d \in dirs \/ a.err)
           /\ Abort
           /\ UNCHANGED <<dirs, files>>
        \/ (* mkdir raises *)
           /\ ~a.err
           /\ dirs' = a.dirs
           /\ files' = a.files
           /\ Abort
  /\ UNCHANGED <<chunks, out, ph, status, inflight, queue, completed, failed,
                 max_workers, resets>>

(* ---- timeit: entering the wrapper ---- *)
StrategyEnter(s) ==
  /\ pc = s
  /\ status[s] = "idle"
  /\ status' = [status EXCEPT ![s] = "running"]
  /\ idx' = 0
  /\ ph' = "open"
  /\ UNCHANGED <<chunks, dirs, files, out, err, pc, inflight, queue, completed,
                 failed, max_workers, resets>>

(* the wrapped call raises: perf_manager prints, the exception goes on *)
StrategyRaise(s) ==
  /\ status' = [status EXCEPT ![s] = "raised"]
  /\ out' = perf_manager(out, Description(s), TRUE)
  /\ Abort

(* ---- test_aiofiles, test_aiofile, test_file: one file after the other ---- *)
SeqOpen(s) ==
  /\ pc = s
  /\ s # "executor"
  /\ status[s] = "running"
  /\ ph = "open"
  /\ idx < N
  /\ LET o == open_w(s, idx, dirs, files)
     IN \/ /\ ~o.err
           /\ files' = o.files
           /\ inflight' = inflight \cup {Handle(s, idx, ChunkAt(idx), FALSE)}
           /\ ph' = "write"
           /\ UNCHANGED <<out, err, pc, status, idx>>
        \/ /\ StrategyRaise(s)
           /\ UNCHANGED <<files, inflight, ph>>
  /\ UNCHANGED <<chunks, dirs, queue, completed, failed, max_workers, resets>>

SeqWrite(s) ==
  /\ pc = s
  /\ s # "executor"
  /\ status[s] = "running"
  /\ ph = "write"
  /\ \/ /\ files' = write_data(s, idx, ChunkAt(idx), files)
        /\ inflight' = {IF h.s = s /\ h.idx = idx
                          THEN Handle(s, idx, h.data, TRUE) ELSE h : h \in inflight}
        /\ ph' = "close"
        /\ UNCHANGED <<out, err, pc, status, idx>>
     \/ (* write raises: the context manager closes the file *)
        /\ inflight' = close_handle(inflight, s, idx)
        /\ StrategyRaise(s)
        /\ UNCHANGED <<files, ph>>
  /\ UNCHANGED <<chunks, dirs, queue, completed, failed, max_workers, resets>>

SeqClose(s) ==
  /\ pc = s
  /\ s # "executor"
  /\ status[s] = "running"
  /\ ph = "close"
  /\ inflight' = close_handle(inflight, s, idx)
  /\ \/ /\ idx' = idx + 1
        /\ ph' = "open"
        /\ UNCHANGED <<out, err, pc, status>>
     \/ (* close raises *)
        /\ StrategyRaise(s)
        /\ UNCHANGED ph
  /\ UNCHANGED <<chunks, dirs, files, queue, completed, failed, max_workers,
                 resets>>

SeqReturn(s) ==
  /\ pc = s
  /\ s # "executor"
  /\ status[s] = "running"
  /\ ph = "open"
  /\ idx = N
  /\ status' = [status EXCEPT ![s] = "returned"]
  /\ out' = perf_manager(out, Description(s), FALSE)
  /\ pc' = NextInRun(s)
  /\ idx' = 0
  /\ UNCHANGED <<chunks, dirs, files, err, ph, inflight, queue, completed,
                 failed, max_workers, resets>>

(* ---- test_executor ---- *)
Submit ==
  /\ pc = "executor"
  /\ status["executor"] = "running"
  /\ idx < N
  /\ queue' = Append(queue, TaskArgs(idx))
  /\ idx' = idx + 1
  /\ UNCHANGED <<chunks, dirs, files, out, err, pc, ph, status, inflight,
                 completed, failed, max_workers, resets>>

(* a free worker takes the oldest queued task and runs write_file up to open *)
WorkerStart ==
  /\ queue # <<>>
  /\ WorkerAvailable
  /\ LET t == Head(queue)
         o == open_w("executor", t.idx, dirs, files)
     IN /\ queue' = Tail(queue)
        /\ \/ /\ ~o.err
              /\ files' = o.files
              /\ inflight' = inflight \cup {Handle("executor", t.idx, t.data, FALSE)}
              /\ UNCHANGED failed
           \/ /\ failed' = failed \cup {t.idx}
              /\ UNCHANGED <<files, inflight>>
  /\ UNCHANGED <<chunks, dirs, out, err, pc, idx, ph, status, completed,
                 max_workers, resets>>

(* the worker's write_file reaches f.write(data) *)
WorkerWrite ==
  /\ \E h \in Running("executor") :
       /\ ~h.written
       /\ \/ /\ files' = write_data("executor", h.idx, h.data, files)
             /\ inflight' = (inflight \ {h}) \cup
                              {Handle("executor", h.idx, h.data, TRUE)}
             /\ UNCHANGED failed
          \/ /\ inflight' = close_handle(inflight, "executor", h.idx)
             /\ failed' = failed \cup {h.idx}
             /\ UNCHANGED files
  /\ UNCHANGED <<chunks, dirs, out, err, pc, idx, ph, status, queue, completed,
                 max_workers, resets>>

(* the worker's write_file leaves the with block: the future is resolved *)
WorkerClose ==
  /\ \E h \in Running("executor") :
       /\ h.written
       /\ inflight' = close_handle(inflight, "executor", h.idx)
       /\ \/ /\ completed' = completed \cup {h.idx}
             /\ UNCHANGED failed
          \/ /\ failed' = failed \cup {h.idx}
             /\ UNCHANGED completed
  /\ UNCHANGED <<chunks, dirs, files, out, err, pc, idx, ph, status, queue,
                 max_workers, resets>>

GatherReturn ==
  /\ pc = "executor"
  /\ status["executor"] = "running"
  /\ idx = N
  /\ GatherDone
  /\ status' = [status EXCEPT !["executor"] = "returned"]
  /\ out' = perf_manager(out, Description("executor"), FALSE)
  /\ pc' = NextInRun("executor")
  /\ idx' = 0
  /\ UNCHANGED <<chunks, dirs, files, err, ph, inflight, queue, completed,
                 failed, max_workers, resets>>

GatherRaise ==
  /\ pc = "executor"
  /\ status["executor"] = "running"
  /\ idx = N
  /\ GatherFailed
  /\ StrategyRaise("executor")
  /\ UNCHANGED <<chunks, dirs, files, ph, inflight, queue, completed,
                 failed, max_workers, resets>>

(* ---- test(): for dirname in Dirs: delete_dir ---- *)
TeardownDir ==
  /\ pc = "teardown"
  /\ LET d == Dirs[idx + 1]
         a == delete_dir(d, dirs, files)
     IN \/ /\ ~a.err
           /\ dirs' = a.dirs
           /\ files' = a.files
           /\ IF idx + 1 < Len(Dirs)
                THEN /\ idx' = idx + 1 /\ pc' = pc
                ELSE /\ idx' = 0 /\ pc' = "finally"
           /\ UNCHANGED err
        \/ (* rmtree raises (the directory is left as it was) *)
           /\ (d \in dirs \/ a.err)
           /\ Abort
           /\ UNCHANGED <<dirs, files>>
  /\ UNCHANGED <<chunks, out, ph, status, inflight, queue, completed, failed,
                 max_workers, resets>>

(* ---- main(): finally ---- *)
MainFinally ==
  /\ pc = "finally"
  /\ out' = Append(out, ExitedLine)
  /\ pc' = "done"
  /\ UNCHANGED <<chunks, dirs, files, err, idx, ph, status, inflight, queue,
                 completed, failed, max_workers, resets>>

(* the coordinator: main(), test() and the strategies it awaits *)
Harness ==
  \/ MainStart
  \/ SetupDir
  \/ \E s \in DirNames : StrategyEnter(s)
  \/ \E s \in DirNames : SeqOpen(s)
  \/ \E s \in DirNames : SeqWrite(s)
  \/ \E s \in DirNames : SeqClose(s)
  \/ \E s \in DirNames : SeqReturn(s)
  \/ Submit
  \/ GatherReturn
  \/ GatherRaise
  \/ TeardownDir
  \/ MainFinally

Next ==
  \/ Harness
  \/ WorkerStart
  \/ WorkerWrite
  \/ WorkerClose

Spec == Init /\ [][Next]_vars

(* batches of one repeated chunk: the pool never looks at the content *)
UniformBatches == {[i \in 1..k |-> "A"] : k \in 1..MaxN}

InitFair ==
  /\ InitCommon
  /\ InitFs
  /\ chunks \in UniformBatches
  /\ pc = "main"
  /\ max_workers = MaxWorkers

(* the event loop keeps running the coordinator; the pool's threads keep
   running their tasks *)
FairSpec ==
  /\ InitFair
  /\ [][Next]_vars
  /\ WF_vars(Harness)
  /\ WF_vars(WorkerStart)
  /\ WF_vars(WorkerWrite)
  /\ WF_vars(WorkerClose)

(* ---- the executor strategy under pools of size 1 and 3 ---- *)
InitPool ==
  /\ InitCommon
  /\ InitFs
  /\ chunks \in Batches
  /\ pc = "main"
  /\ max_workers \in PoolSizes

SpecPool == InitPool /\ [][Next]_vars

(* ---- the workspace alone: resets applied to any directory state ---- *)
InitWorkspace ==
  /\ InitCommon
  /\ InitFs
  /\ chunks = <<>>
  /\ pc = "reset"
  /\ max_workers = MaxWorkers

(* the body of test()'s first loop: delete_dir(d); make_dir(d) *)
ResetDir(k) ==
  /\ pc = "reset"
  /\ Len(resets) < MaxResets
  /\ LET d == Dirs[k]
         a == delete_dir(d, dirs, files)
         b == make_dir(d, a.dirs, a.files)
     IN /\ dirs' = IF a.err THEN a.dirs ELSE b.dirs
        /\ files' = IF a.err THEN a.files ELSE b.files
        /\ err' = (err \/ a.err \/ b.err)
        /\ resets' = Append(resets, d)
  /\ UNCHANGED <<chunks, out, pc, idx, ph, status, inflight, queue, completed,
                 failed, max_workers>>

NextWorkspace == \E k \in 1..Len(Dirs) : ResetDir(k)

SpecWorkspace == InitWorkspace /\ [][NextWorkspace]_vars

(* ======================= properties ======================= *)
Strategies == DirNames

Sequential == DirNames \ {"executor"}

(* the files a strategy is to produce: i.txt holds chunk i, for i < N *)
Expected == [i \in 0..(Len(chunks) - 1) |-> chunks[i + 1]]

(* every strategy has had its turn and nothing has been deleted yet *)
BeforeTeardown == pc \in DirNames \/ (pc = "teardown" /\ idx = 0)

CountOf(seq, x) == Cardinality({k \in 1..Len(seq) : seq[k] = x})

Exited(s) == status[s] \in {"returned", "raised"}

Queued == {queue[j].idx : j \in 1..Len(queue)}

ExecutorBusy == Running("executor") # {} \/ queue # <<>>

(* the strategies with a write in progress, the pool's queued tasks included *)
Writers == {h.s : h \in inflight} \cup (IF queue # <<>> THEN {"executor"} ELSE {})

(* C1: once a strategy has returned normally, its directory holds exactly
   the files 0..N-1 and file i holds chunks[i]; so all four strategies leave
   the same file set. *)
C1_FilesMatchChunks ==
  \A s \in Strategies :
    (status[s] = "returned" /\ BeforeTeardown) =>
      (s \in dirs /\ files[s] = Expected)

C1_Witness ==
  /\ pc = "teardown" /\ idx = 0
  /\ \A s \in Strategies : status[s] = "returned" /\ files[s] = Expected
  /\ Len(chunks) >= 2 /\ chunks[1] # chunks[2]

(* C2: whatever the pool size (1 or 3) and the interleaving of the workers,
   the executor strategy, once returned, leaves the directory state that the
   batch alone determines, with no task left in the pool. *)
C2_PoolSizeIrrelevant ==
  \A w \in PoolSizes :
    (max_workers = w /\ status["executor"] = "returned" /\ BeforeTeardown) =>
      /\ "executor" \in dirs
      /\ DOMAIN files["executor"] = 0..(Len(chunks) - 1)
      /\ \A i \in 0..(Len(chunks) - 1) : files["executor"][i] = chunks[i + 1]
      /\ ~ExecutorBusy

C2_Witness ==
  /\ max_workers = 1
  /\ status["executor"] = "returned"
  /\ pc = "file"
  /\ Len(chunks) >= 3 /\ chunks[1] # chunks[2]
  /\ files["executor"] = Expected

(* C3 as stated: the executor strategy's wrapper exits (the timing line is
   printed, control is back in the harness) only when none of the N
   submitted writes is still queued or running. *)
C3_Original ==
  (Exited("executor") \/ CountOf(out, Description("executor")) > 0) =>
    ~ExecutorBusy

(* C3 amended: the wrapper exits only after all N writes were submitted and
   either all N have completed (normal return) or one of them has failed
   (the failure is raised at once, siblings may still be queued or running). *)
C3_Barrier ==
  /\ CountOf(out, Description("executor")) > 0 => Exited("executor")
  /\ Exited("executor") =>
       Len(queue) + Cardinality(Running("executor"))
         + Cardinality(completed \cup failed) = Len(chunks)
  /\ status["executor"] = "returned" =>
       (completed = 0..(Len(chunks) - 1) /\ ~ExecutorBusy)
  /\ status["executor"] = "raised" => failed # {}

C3_Witness ==
  /\ status["executor"] = "returned"
  /\ pc = "file"
  /\ Len(chunks) > MaxWorkers
  /\ completed = 0..(Len(chunks) - 1)

(* C4: in test_aiofiles, test_aiofile and test_file at most one write is in
   progress, it is the write of the current index, every file of a smaller
   index is complete and closed, and no file of a larger index exists yet. *)
C4_StrictIndexOrder ==
  \A s \in Sequential :
    /\ Cardinality(Running(s)) <= 1
    /\ status[s] = "running" =>
         /\ \A h \in Running(s) : h.idx = idx /\ ph # "open"
         /\ \A j \in 0..(idx - 1) :
              j \in DOMAIN files[s] /\ files[s][j] = chunks[j + 1]
         /\ DOMAIN files[s] \subseteq 0..idx
         /\ (ph = "open" => idx \notin DOMAIN files[s])

C4_Witness ==
  /\ pc = "aiofile"
  /\ status["aiofile"] = "running"
  /\ idx = 1 /\ ph = "close"
  /\ Running("aiofile") = {Handle("aiofile", 1, chunks[2], TRUE)}
  /\ files["aiofile"][0] = chunks[1]

(* C5: writes of two different strategies are never in progress together,
   and no write is in progress or queued while test() creates or deletes
   the directories. *)
C5_NoOverlap ==
  /\ Cardinality(Writers) <= 1
  /\ pc \in {"setup", "teardown"} => Writers = {}
  /\ \A s \in Writers : status[s] = "running" \/ (s = "executor" /\ err)

C5_Witness ==
  /\ pc = "file"
  /\ status["executor"] = "returned"
  /\ Writers = {"file"}
  /\ idx = 1

(* C6: the wrapper prints no line before the wrapped strategy exits and
   exactly one line once it has exited, normally or by an exception; an
   exception is not swallowed: the run is then in main's finally or over,
   with the error still raised. *)
C6_OneTimingLine ==
  \A s \in Strategies :
    /\ ~Exited(s) => CountOf(out, Description(s)) = 0
    /\ Exited(s) => CountOf(out, Description(s)) = 1
    /\ status[s] = "raised" => (err /\ pc \in {"finally", "done"})

C6_Witness ==
  /\ status["executor"] = "raised"
  /\ pc = "done"
  /\ err
  /\ CountOf(out, Description("executor")) = 1

(* C7: after a failure the error stays raised to the end, control is in
   main's finally or the run is over, no strategy starts or finishes, and
   no directory is deleted: when a write failed all four directories are
   left behind. *)
C7_FailureAbortsRun ==
  /\ [](err => pc \in {"finally", "done"})
  /\ []((err /\ \E s \in Strategies : status[s] = "raised") => dirs = DirNames)
  /\ [][err => (err' /\ dirs' = dirs /\ status' = status)]_vars

C7_Witness ==
  /\ err
  /\ pc = "done"
  /\ status["aiofiles"] = "raised"
  /\ \A s \in Strategies \ {"aiofiles"} : status[s] = "idle"
  /\ dirs = DirNames

(* C8 as stated: the n= line is the first line, and the Exited line is the
   last line and is printed only after all four directories were deleted. *)
C8_Original ==
  /\ out # <<>> => out[1] = NLine
  /\ CountOf(out, ExitedLine) > 0 =>
       (out[Len(out)] = ExitedLine /\ dirs = {})

(* C8 amended: the n= line is printed first, before any directory or file
   operation; the Exited line is printed once test() has ended and is the
   last line; when test() ended without a failure there is one timing line
   per strategy in run order in between and all four directories have been
   deleted (after a failure Exited is printed all the same). *)
C8_OutputOrder ==
  /\ [](out # <<>> => out[1] = NLine)
  /\ [][out = <<>> => (dirs' = dirs /\ files' = files)]_vars
  /\ [](CountOf(out, ExitedLine) > 0 <=> pc = "done")
  /\ [](pc = "done" => out[Len(out)] = ExitedLine /\ CountOf(out, ExitedLine) = 1)
  /\ []((pc = "done" /\ ~err) =>
          /\ dirs = {}
          /\ out = <<NLine>> \o [k \in 1..Len(RunOrder) |-> Description(RunOrder[k])]
                     \o <<ExitedLine>>)
  /\ [][pc = "done" => out' = out]_vars

C8_Witness ==
  /\ pc = "done"
  /\ ~err
  /\ Len(out) = 6
  /\ dirs = {}

(* C9: a reset of a directory, whatever state it starts from, raises no
   error and leaves the directory existing and empty; a second reset of the
   same directory right after the first changes nothing and raises no error. *)
C9_ResetIdempotent ==
  /\ [](resets # <<>> =>
          /\ ~err
          /\ resets[Len(resets)] \in dirs
          /\ files[resets[Len(resets)]] = EmptyDir)
  /\ [][(resets # <<>> /\ resets' = Append(resets, resets[Len(resets)])) =>
          (dirs' = dirs /\ files' = files /\ ~err')]_vars

C9_Witness ==
  /\ resets = <<"file", "file">>
  /\ "file" \in dirs
  /\ files["file"] = EmptyDir
  /\ ~err

(* C10: at most 3 writes of the executor strategy execute at a time, the
   other submitted ones wait in the queue; with fair workers every queued
   write is eventually executed and the strategy ends. *)
C10_BoundedPool ==
  /\ [](Cardinality(Running("executor")) <= MaxWorkers)
  /\ [](status["executor"] = "running" =>
          /\ Len(queue) + Cardinality(Running("executor"))
               + Cardinality(completed \cup failed) = idx
          /\ Cardinality(Queued) = Len(queue))
  /\ \A k \in 0..(MaxN - 1) : (k \in Queued) ~> (k \in completed \cup failed)
  /\ (status["executor"] = "running") ~> Exited("executor")

C10_Witness ==
  /\ Cardinality(Running("executor")) = MaxWorkers
  /\ queue # <<>>
  /\ status["executor"] = "running"

====
